---- MODULE Spec2Model ----
(***************************************************************************)
(* paperd: the System V message-queue transport between the command-line   *)
(* client and the daemon (src/src/messaging.rs).                           *)
(*                                                                         *)
(* The kernel's queues, the client processes that call send_message,       *)
(* receive_message and close, and the daemon at the other end of the       *)
(* queues are one state machine.  Bytes are integers 0..255; a text is the *)
(* sequence of its UTF-8 bytes.                                            *)
(***************************************************************************)
EXTENDS Integers, Sequences, FiniteSets, TLC

\* ------------------------------------------------------------ constants

\* const MESSAGE_TYPE: c_long = 0x7654
MESSAGE_TYPE == 30292
\* const MESSAGE_LENGTH: usize = 100
MESSAGE_LENGTH == 100

\* How many send_message calls the processes make in all.
MaxSends == 2

\* The client processes, named by their process ids (process::id()).
Procs == {1, 2}

\* The -1 of "msqid == -1", "ret == -1" and of receive_chan without a reply.
NoChan == 0 - 1

\* ------------------------------------------------------------ bytes

\* A chunk size that is all the data left, whatever the capacity.
MinUncapped(a, b) == a

\* std::cmp::min
Min(a, b) == IF a < b THEN a ELSE b

\* [0; MESSAGE_LENGTH]
Zeros == [i \in 1..MESSAGE_LENGTH |-> 0]

\* The serialized form of the message a process sends: n bytes that differ
\* from one position to the next and from one call to the next.
PayloadBytes(n, seed) == [i \in 1..n |-> 32 + ((7 * i + 13 * seed) % 90)]

\* ------------------------------------------------------------ UTF-8

IsCont(b, i) == i <= Len(b) /\ b[i] >= 128 /\ b[i] <= 191

\* std::str::from_utf8: whether b[i..] is well-formed UTF-8.
RECURSIVE Utf8From(_, _)
Utf8From(b, i) ==
    IF i > Len(b) THEN TRUE
    ELSE LET c == b[i] IN
      CASE c < 128 -> Utf8From(b, i + 1)
        [] c >= 194 /\ c <= 223 -> IsCont(b, i + 1) /\ Utf8From(b, i + 2)
        [] c = 224 -> /\ IsCont(b, i + 1) /\ b[i + 1] >= 160
                      /\ IsCont(b, i + 2) /\ Utf8From(b, i + 3)
        [] (c >= 225 /\ c <= 236) \/ c = 238 \/ c = 239 ->
                      /\ IsCont(b, i + 1) /\ IsCont(b, i + 2)
                      /\ Utf8From(b, i + 3)
        [] c = 237 -> /\ IsCont(b, i + 1) /\ b[i + 1] <= 159
                      /\ IsCont(b, i + 2) /\ Utf8From(b, i + 3)
        [] c = 240 -> /\ IsCont(b, i + 1) /\ b[i + 1] >= 144
                      /\ IsCont(b, i + 2) /\ IsCont(b, i + 3)
                      /\ Utf8From(b, i + 4)
        [] c >= 241 /\ c <= 243 ->
                      /\ IsCont(b, i + 1) /\ IsCont(b, i + 2)
                      /\ IsCont(b, i + 3) /\ Utf8From(b, i + 4)
        [] c = 244 -> /\ IsCont(b, i + 1) /\ b[i + 1] <= 143
                      /\ IsCont(b, i + 2) /\ IsCont(b, i + 3)
                      /\ Utf8From(b, i + 4)
        [] OTHER -> FALSE

from_utf8(b) == Utf8From(b, 1)

\* ------------------------------------------------------------ JSON
\* serde_json::from_str on the replies the daemon writes: one flat object,
\* no white space, string keys, values that are strings without escapes or
\* the literals true and false.  Anything else is a syntax error.

JsonFail == [ok |-> FALSE, members |-> <<>>]

\* The index of the quote that closes the string whose first character is
\* at i, or 0 when the string is not closed or holds a control character or
\* a backslash.
RECURSIVE ScanString(_, _)
ScanString(t, i) ==
    IF i > Len(t) THEN 0
    ELSE IF t[i] = 34 THEN i
    ELSE IF t[i] < 32 \/ t[i] = 92 THEN 0
    ELSE ScanString(t, i + 1)

\* The value that starts at v: [ok, type, s, b, next].
ParseValue(t, v) ==
    IF v > Len(t) THEN [ok |-> FALSE, type |-> "", s |-> <<>>, b |-> FALSE, next |-> 0]
    ELSE IF t[v] = 34 THEN
        LET e == ScanString(t, v + 1) IN
        IF e = 0 THEN [ok |-> FALSE, type |-> "", s |-> <<>>, b |-> FALSE, next |-> 0]
        ELSE [ok |-> TRUE, type |-> "string", s |-> SubSeq(t, v + 1, e - 1),
              b |-> FALSE, next |-> e + 1]
    ELSE IF v + 3 <= Len(t) /\ SubSeq(t, v, v + 3) = <<116, 114, 117, 101>> THEN
        [ok |-> TRUE, type |-> "bool", s |-> <<>>, b |-> TRUE, next |-> v + 4]
    ELSE IF v + 4 <= Len(t) /\ SubSeq(t, v, v + 4) = <<102, 97, 108, 115, 101>> THEN
        [ok |-> TRUE, type |-> "bool", s |-> <<>>, b |-> FALSE, next |-> v + 5]
    ELSE [ok |-> FALSE, type |-> "", s |-> <<>>, b |-> FALSE, next |-> 0]

\* The members from position i on, i being where a key's opening quote must be.
RECURSIVE ParseMembers(_, _, _)
ParseMembers(t, i, acc) ==
    IF i > Len(t) \/ t[i] # 34 THEN JsonFail
    ELSE LET k == ScanString(t, i + 1) IN
      IF k = 0 \/ k + 1 > Len(t) \/ t[k + 1] # 58 THEN JsonFail
      ELSE LET val == ParseValue(t, k + 2)
               mem == [key |-> SubSeq(t, i + 1, k - 1), type |-> val.type,
                       s |-> val.s, b |-> val.b]
           IN
        IF ~val.ok \/ val.next > Len(t) THEN JsonFail
        ELSE IF t[val.next] = 44 THEN ParseMembers(t, val.next + 1, Append(acc, mem))
        ELSE IF t[val.next] = 125 /\ val.next = Len(t)
             THEN [ok |-> TRUE, members |-> Append(acc, mem)]
        ELSE JsonFail

ParseObject(t) ==
    IF Len(t) < 2 \/ t[1] # 123 THEN JsonFail
    ELSE IF t = <<123, 125>> THEN [ok |-> TRUE, members |-> <<>>]
    ELSE ParseMembers(t, 2, <<>>)

\* A derived Deserialize of a struct with the one field `name` of type `type`:
\* unknown fields are skipped, the field must occur once and have the type.
ParseStruct(t, name, type) ==
    LET o == ParseObject(t)
        at == {i \in 1..Len(o.members) : o.members[i].key = name}
    IN
    IF ~o.ok THEN [ok |-> FALSE, err |-> "syntax", s |-> <<>>, b |-> FALSE]
    ELSE IF at = {} THEN [ok |-> FALSE, err |-> "missing field", s |-> <<>>, b |-> FALSE]
    ELSE IF \E i \in at : o.members[i].type # type
         THEN [ok |-> FALSE, err |-> "invalid type", s |-> <<>>, b |-> FALSE]
    ELSE IF Cardinality(at) > 1
         THEN [ok |-> FALSE, err |-> "duplicate field", s |-> <<>>, b |-> FALSE]
    ELSE LET m == o.members[CHOOSE i \in at : TRUE] IN
         [ok |-> TRUE, err |-> "", s |-> m.s, b |-> m.b]

\* serde_json::from_str::<R>, R the reply the caller expects: a struct with
\* the field running: bool.
ParseExpected(t) == ParseStruct(t, <<114, 117, 110, 110, 105, 110, 103>>, "bool")

\* serde_json::from_str::<ServerErrorMessage>: the field error: String.
ParseServerErrorMessage(t) == ParseStruct(t, <<101, 114, 114, 111, 114>>, "string")

\* ------------------------------------------------------------ wire format

\* A send_paged_message that leaves the length byte as it is.
SetFinDropped(len) == len

\* len |= 0x80 on a u8.
SetFin(len) == IF (len \div 128) % 2 = 1 THEN len ELSE len + 128

\* A send_paged_message that does not say who sends.
PagedMessageNoSender(pid, type_id, receive_chan, msg, fin, xid, seq) ==
    LET len == Len(msg) % 256 IN
    [m_type |-> MESSAGE_TYPE,
     response_chan |-> receive_chan,
     response_pid |-> 0,
     message_type |-> type_id,
     message_length |-> IF fin THEN SetFin(len) ELSE len,
     message |-> [i \in 1..MESSAGE_LENGTH |-> IF i <= Len(msg) THEN msg[i] ELSE 0],
     xid |-> xid,
     seq |-> seq]

\* The Message that send_paged_message builds for the chunk msg.  xid and
\* seq are not fields of the struct: they name the send_message call a
\* segment belongs to (for a reply, the call it answers) and the turn of the
\* call's loop that pushed it, for the properties only.
PagedMessage(pid, type_id, receive_chan, msg, fin, xid, seq) ==
    LET len == Len(msg) % 256 IN
    [m_type |-> MESSAGE_TYPE,
     response_chan |-> receive_chan,
     response_pid |-> pid,
     message_type |-> type_id,
     message_length |-> IF fin THEN SetFin(len) ELSE len,
     message |-> [i \in 1..MESSAGE_LENGTH |-> IF i <= Len(msg) THEN msg[i] ELSE 0],
     xid |-> xid,
     seq |-> seq]

\* message.data.message_length & MASK == MASK
IsFinal(m) == (m.message_length \div 128) % 2 = 1

\* (message.data.message_length & 0x7F) as usize
SegLen(m) == m.message_length % 128

\* &message.data.message[..len] is a slice of the 100-byte array: it exists
\* only for len <= MESSAGE_LENGTH, and the index panics otherwise.
SliceOk(m) == SegLen(m) <= MESSAGE_LENGTH

\* buffer.extend(data)
Extend(buffer, m) == buffer \o SubSeq(m.message, 1, SegLen(m))

\* The types a caller sends: MessageHandler::type_id and ::expect_response.
MessageHandlers ==
    { [type_id |-> 1, expect_response |-> TRUE],
      [type_id |-> 2, expect_response |-> FALSE] }

\* ------------------------------------------------------------ results

NoRet == [kind |-> "none", code |-> 0, val |-> <<>>]
\* Err(1)
Err1 == [kind |-> "Err", code |-> 1, val |-> <<>>]
\* Ok(None), Ok(())
OkUnit == [kind |-> "Ok", code |-> 0, val |-> <<>>]
\* Ok(Some(ResponseChannel { response_chan })), Ok(MessageChannel { msq_id })
OkChan(id) == [kind |-> "Ok", code |-> 0, val |-> <<id>>]
\* Ok(r), r the struct whose field running is b
OkValue(b) == [kind |-> "Ok", code |-> 0, val |-> <<IF b THEN 1 ELSE 0>>]

\* What an operation wrote with eprintln!: the line's fixed text ("{}" alone
\* when there is none), the number or the bytes it shows, and the parse
\* error it shows.
NoDiag == [line |-> "", arg |-> <<>>, detail |-> ""]
Diag(line, arg) == [line |-> line, arg |-> arg, detail |-> ""]
DiagDetail(line, detail) == [line |-> line, arg |-> <<>>, detail |-> detail]

\* ------------------------------------------------------------ state

VARIABLES
    msq,      \* the kernel's queues: msqid -> [key, msgs]
    nextId,   \* the msqid the kernel gives the next queue it creates
    proc,     \* the client processes
    daemon,   \* the daemon at the other end of the queues
    nsends,   \* how many send_message calls have begun
    plen,     \* the serialized length the senders' messages have
    script,   \* what the daemon answers a request with
    closed,   \* the msqids a close has removed (history)
    os        \* the processes that call run_daemon, as the kernel sees them

vars == <<msq, nextId, proc, daemon, nsends, plen, script, closed, os>>

\* ------------------------------------------------------------ the kernel
\* System V message queues.  A queue lives from the msgget that creates it
\* to the msgctl(IPC_RMID) that removes it, whatever its processes do; the
\* kernel gives every new queue an msqid no queue had before.

Exists(id) == id \in DOMAIN msq

WithKey(key) == {id \in DOMAIN msq : msq[id].key = key}

\* msgget(key, 0o666 | IPC_CREAT): the queue of that key, else a new one, else
\* -1 when the kernel has no room for one (ENOSPC, ENOMEM: room is false).
MsggetId(key, room) ==
    IF WithKey(key) # {} THEN CHOOSE id \in WithKey(key) : TRUE
    ELSE IF room THEN nextId
    ELSE NoChan

MsggetQueues(key, room) ==
    IF WithKey(key) # {} \/ ~room THEN msq
    ELSE [id \in DOMAIN msq \cup {nextId} |->
            IF id = nextId THEN [key |-> key, msgs |-> <<>>] ELSE msq[id]]

MsggetNext(key, room) ==
    IF WithKey(key) # {} \/ ~room THEN nextId ELSE nextId + 1

\* msgsnd(msqid, &message, size_of::<Data>(), 0): -1 when the queue does not
\* exist (EINVAL, EIDRM) or the kernel cannot copy the message (ENOMEM: mem
\* is false), else 0 with the message queued last.
MsgsndOk(id, mem) == Exists(id) /\ mem

MsgsndQueues(id, m, mem) ==
    IF MsgsndOk(id, mem)
    THEN [msq EXCEPT ![id].msgs = Append(@, m)]
    ELSE msq

\* msgrcv(msqid, &message, size_of::<Data>(), MESSAGE_TYPE, 0): the first
\* queued message of the type.  It fails when the queue does not exist, and
\* blocks while the queue holds no message of the type.
FirstOfType(msgs, type) ==
    LET at == {i \in 1..Len(msgs) : msgs[i].m_type = type} IN
    IF at = {} THEN 0 ELSE CHOOSE i \in at : \A j \in at : i <= j

MsgrcvFails(id) == ~Exists(id)

MsgrcvReady(id) == Exists(id) /\ FirstOfType(msq[id].msgs, MESSAGE_TYPE) # 0

MsgrcvMessage(id) == msq[id].msgs[FirstOfType(msq[id].msgs, MESSAGE_TYPE)]

MsgrcvQueues(id) ==
    LET k == FirstOfType(msq[id].msgs, MESSAGE_TYPE) IN
    [msq EXCEPT ![id].msgs = SubSeq(@, 1, k - 1) \o SubSeq(@, k + 1, Len(@))]

\* msgctl(msqid, IPC_RMID, null): removes the queue and what it holds.
MsgctlOk(id) == Exists(id)

\* A close whose msgctl leaves the queue where it is.
MsgctlQueuesKept(id) == msq

MsgctlQueues(id) == [i \in DOMAIN msq \ {id} |-> msq[i]]

\* ------------------------------------------------------------ open
\* The pid files, as canonicalize and ftok see them: a path resolves to a
\* file or does not; a file has a device and an inode number.

Paths == {"paper.pid", "link.pid", "other.pid", "twin.pid", "gone.pid"}

\* Path::canonicalize: link.pid is a symbolic link to paper.pid; gone.pid
\* does not exist ("" stands for the Err).  other.pid and twin.pid are files
\* of their own.
Canonicalize(path) ==
    CASE path = "paper.pid" -> "paper.pid"
      [] path = "link.pid" -> "paper.pid"
      [] path = "other.pid" -> "other.pid"
      [] path = "twin.pid" -> "twin.pid"
      [] OTHER -> ""

\* stat of a canonical path.  The three files are on one device; the inode
\* number of twin.pid is that of paper.pid plus 2^16.
StatOf(path) ==
    CASE path = "paper.pid" -> [dev |-> 1, ino |-> 7]
      [] path = "twin.pid" -> [dev |-> 1, ino |-> 65543]
      [] OTHER -> [dev |-> 1, ino |-> 9]

\* ftok(path, 'P'): the low 8 bits of the id, the low 8 bits of the device
\* and the low 16 bits of the inode number.
Ftok(path, proj) ==
    ((proj % 256) * 16777216) + ((StatOf(path).dev % 256) * 65536)
        + (StatOf(path).ino % 65536)

\* 'P' as i32
ProjId == 80

\* ------------------------------------------------------------ daemonize
\* src/src/daemon.rs.  A process, as fork, setsid and close see it: its
\* parent, its session, its process group and the descriptors it has open.

\* How many run_daemon calls the processes make in all.
MaxCalls == 2

\* The shell that started the first process, and that process.
ShellPid == 1
FirstPid == 2

\* stdin().as_raw_fd(), stdout().as_raw_fd(), stderr().as_raw_fd()
StdFds == {0, 1, 2}

NoStatus == [kind |-> "none", status |-> "", code |-> 0]
\* Ok(Status::QUIT)
OkQuit == [kind |-> "Ok", status |-> "QUIT", code |-> 0]
\* Ok(Status::CONTINUE)
OkContinue == [kind |-> "Ok", status |-> "CONTINUE", code |-> 0]
\* Err(1)
ErrExit == [kind |-> "Err", status |-> "", code |-> 1]

\* A system call a process made inside run_daemon, and what it returned
\* (-1: the Err).
Sys(call, fd, res) == [call |-> call, fd |-> fd, res |-> res]

\* A process outside run_daemon.  cid and role name its latest run_daemon
\* call and its branch of it; born is the call whose fork made it; sid0 and fds0 are its session and descriptors
\* when that call began; did is the system calls it made in the call; line
\* is what it wrote with eprintln!.
Task(ppid, sid, pgid, fds) ==
    [pc |-> "idle", ppid |-> ppid, sid |-> sid, pgid |-> pgid, fds |-> fds,
     ret |-> NoStatus, line |-> "", cid |-> 0, role |-> "", born |-> 0,
     sid0 |-> sid, fds0 |-> fds, did |-> <<>>]

\* The first process, started by the shell in the shell's session.
OsStart(fds, pgid) ==
    [tasks |-> [p \in {FirstPid} |-> Task(ShellPid, ShellPid, pgid, fds)],
     nextPid |-> FirstPid + 1,
     calls |-> 0]

\* Ok(ForkResult::Child) => {}: the new process, a copy of its parent, goes
\* on to setsid.
ForkChild(me, ppid) ==
    [me EXCEPT !.pc = "setsid", !.ppid = ppid, !.role = "child",
               !.born = me.cid, !.did = <<Sys("fork", NoChan, 0)>>]

\* A run_daemon whose parent branch goes on like the child's.
ForkParentDetaches(me, child) ==
    [me EXCEPT !.pc = "setsid", !.role = "parent",
               !.did = <<Sys("fork", NoChan, child)>>]

\* Ok(ForkResult::Parent { .. }) => return Ok(Status::QUIT)
ForkParent(me, child) ==
    [me EXCEPT !.pc = "idle", !.role = "parent", !.ret = OkQuit,
               !.did = <<Sys("fork", NoChan, child)>>]

\* run_daemon up to the end of `match fork()`; ok is whether the kernel can
\* make the process (else EAGAIN, ENOMEM).
Fork(p, ok) ==
    LET me == os.tasks[p]
        child == os.nextPid
        begun == [me EXCEPT !.cid = os.calls + 1, !.role = "caller",
                            !.ret = NoStatus, !.line = "", !.did = <<>>,
                            !.sid0 = me.sid, !.fds0 = me.fds]
    IN
    /\ p \in DOMAIN os.tasks
    /\ me.pc = "idle"
    /\ os.calls < MaxCalls
    /\ os' = IF ok
             THEN [tasks |-> [q \in DOMAIN os.tasks \cup {child} |->
                                IF q = child THEN ForkChild(begun, p)
                                ELSE IF q = p THEN ForkParent(begun, child)
                                ELSE os.tasks[q]],
                   nextPid |-> child + 1,
                   calls |-> os.calls + 1]
             ELSE [os EXCEPT
                     !.tasks[p] = [begun EXCEPT !.ret = ErrExit,
                                     !.line = "Fork failed",
                                     !.did = <<Sys("fork", NoChan, NoChan)>>],
                     !.calls = @ + 1]
    /\ UNCHANGED <<msq, nextId, proc, daemon, nsends, plen, script, closed>>

\* setsid(): EPERM for the leader of a process group, and when the kernel
\* refuses the call (ok is false); else the caller leads a new session and a
\* new process group.
SetsidOk(p, ok) == ok /\ \A q \in DOMAIN os.tasks : os.tasks[q].pgid # p

\* A run_daemon that goes on to close the streams when setsid failed.
SetsidFailedGoesOn(me) ==
    [me EXCEPT !.pc = "close_stdin",
               !.did = Append(@, Sys("setsid", NoChan, NoChan))]

\* Err(_) => { eprintln!("Failed to start a new session"); return Err(1) }
SetsidFailed(me) ==
    [me EXCEPT !.pc = "idle", !.ret = ErrExit,
               !.line = "Failed to start a new session",
               !.did = Append(@, Sys("setsid", NoChan, NoChan))]

\* run_daemon, `match setsid()`.
Setsid(p, ok) ==
    LET me == os.tasks[p] IN
    /\ p \in DOMAIN os.tasks
    /\ me.pc = "setsid"
    /\ os' = [os EXCEPT !.tasks[p] =
         IF SetsidOk(p, ok)
         THEN [me EXCEPT !.pc = "close_stdin", !.sid = p, !.pgid = p,
                         !.did = Append(@, Sys("setsid", NoChan, p))]
         ELSE SetsidFailed(me)]
    /\ UNCHANGED <<msq, nextId, proc, daemon, nsends, plen, script, closed>>

\* The descriptor the next close_fd closes.
FdOf(pc) ==
    CASE pc = "close_stdin" -> 0
      [] pc = "close_stdout" -> 1
      [] OTHER -> 2

AfterClose(pc) ==
    CASE pc = "close_stdin" -> "close_stdout"
      [] pc = "close_stdout" -> "close_stderr"
      [] OTHER -> "idle"

\* close(fd): EBADF when the descriptor is not open, and an error of the
\* file behind it (EIO, EINTR: eio is true).
CloseRes(fds, fd, eio) == IF fd \in fds /\ ~eio THEN 0 ELSE NoChan

\* A close that leaves the descriptor open when it returns an error.
FdsKeptOnError(fds, fd, res) == IF res = 0 THEN fds \ {fd} ELSE fds

\* The kernel releases the descriptor before it closes the file: whatever
\* close returns, the descriptor is not open after it.
FdsAfterClose(fds, fd, res) == fds \ {fd}

\* fn close_fd, called for stdin, stdout and stderr in turn, and the
\* return Ok(Status::CONTINUE) after the third.
CloseFd(p, eio) ==
    LET me == os.tasks[p]
        fd == FdOf(me.pc)
        res == CloseRes(me.fds, fd, eio)
        shut == [me EXCEPT !.pc = AfterClose(me.pc),
                           !.fds = FdsAfterClose(me.fds, fd, res),
                           !.did = Append(@, Sys("close", fd, res))]
    IN
    /\ p \in DOMAIN os.tasks
    /\ me.pc \in {"close_stdin", "close_stdout", "close_stderr"}
    /\ os' = [os EXCEPT !.tasks[p] =
         IF shut.pc = "idle" THEN [shut EXCEPT !.ret = OkContinue] ELSE shut]
    /\ UNCHANGED <<msq, nextId, proc, daemon, nsends, plen, script, closed>>

\* ------------------------------------------------------------ replies
\* What the daemon writes is a length byte and 100 bytes a segment.

RawSegment(bytes, fin) ==
    [message_length |-> IF fin THEN SetFin(Len(bytes)) ELSE Len(bytes),
     message |-> [i \in 1..MESSAGE_LENGTH |-> IF i <= Len(bytes) THEN bytes[i] ELSE 0]]

\* {"running":true}
TextRunning == <<123, 34, 114, 117, 110, 110, 105, 110, 103, 34, 58, 116, 114, 117, 101, 125>>
\* {"error":"down"}
TextError == <<123, 34, 101, 114, 114, 111, 114, 34, 58, 34, 100, 111, 119, 110, 34, 125>>
\* {"error":"down","running":true}
TextBoth == <<123, 34, 101, 114, 114, 111, 114, 34, 58, 34, 100, 111, 119, 110, 34, 44,
              34, 114, 117, 110, 110, 105, 110, 103, 34, 58, 116, 114, 117, 101, 125>>
\* {"error":true}
TextNeither == <<123, 34, 101, 114, 114, 111, 114, 34, 58, 116, 114, 117, 101, 125>>
\* a byte no UTF-8 text holds
TextNotUtf8 == <<255>>

\* A final segment whose length field says 101: more than the array holds.
Overlong == [message_length |-> SetFin(MESSAGE_LENGTH + 1), message |-> Zeros]

\* What the daemon may answer a request with; <<>>: nothing.
Replies ==
    { <<RawSegment(TextRunning, TRUE)>>,
      <<RawSegment(SubSeq(TextRunning, 1, 11), FALSE),
        RawSegment(SubSeq(TextRunning, 12, 16), TRUE)>>,
      <<RawSegment(TextError, TRUE)>>,
      <<RawSegment(TextBoth, TRUE)>>,
      <<RawSegment(TextNeither, TRUE)>>,
      <<RawSegment(TextNotUtf8, TRUE)>>,
      <<Overlong>>,
      <<>> }

\* ------------------------------------------------------------ processes

\* A process between two calls.  msq_id is its MessageChannel (NoChan: not
\* opened); handles are the ResponseChannels its sends returned.  The rest
\* is the locals and the outcome of its latest call.
IdleProc(msq_id, handles) ==
    [pc |-> "idle", msq_id |-> msq_id, handles |-> handles,
     last |-> "none", ret |-> NoRet, diag |-> NoDiag,
     \* open_message_channel: the canonical path and the key ftok gave
     path |-> "", key |-> 0,
     \* send_message
     exp_resp |-> FALSE, type_id |-> 0, receive_chan |-> NoChan,
     data |-> <<>>, orig |-> <<>>, pushed |-> <<>>, sxid |-> 0, msgsnds |-> 0,
     \* receive_message and close
     response_chan |-> NoChan, rxid |-> 0, buffer |-> <<>>, is_done |-> FALSE,
     reads |-> 0, got |-> {}, afterClose |-> FALSE, tried |-> FALSE,
     msgrcvs |-> 0]

\* The serialized lengths the senders use.
PayloadLens == {0, 1, 100, 101}

\* The runs: two clients with every length and the plain answer, two clients
\* with a one-segment request and every answer, one client with a
\* three-segment request.
Scenarios ==
    { [plen |-> n, script |-> <<RawSegment(TextRunning, TRUE)>>, clients |-> Procs] :
        n \in PayloadLens }
    \cup { [plen |-> 1, script |-> r, clients |-> Procs] : r \in Replies }
    \cup { [plen |-> 250, script |-> <<RawSegment(TextRunning, TRUE)>>,
             clients |-> {1}] }

\* The daemon named by paper.pid listens on the queue of that path's key.
DaemonKey == Ftok("paper.pid", ProjId)

Init ==
    /\ msq = [id \in {1} |-> [key |-> DaemonKey, msgs |-> <<>>]]
    /\ nextId = 2
    /\ \E sc \in Scenarios :
         /\ plen = sc.plen
         /\ script = sc.script
         /\ proc = [p \in Procs |->
                     IdleProc(IF p \in sc.clients THEN 1 ELSE NoChan, <<>>)]
    /\ daemon = [msq_id |-> 1, buffer |-> <<>>, request |-> <<>>,
                 reply |-> <<>>, to |-> NoChan, xid |-> 0]
    /\ nsends = 0
    /\ closed = {}
    /\ os = OsStart(StdFds, FirstPid)

\* open_message_channel(pid_file)
Open(p, path, room) ==
    LET me == proc[p]
        canon == Canonicalize(path)
        key == Ftok(canon, ProjId)
        id == MsggetId(key, room)
        done == [IdleProc(me.msq_id, me.handles) EXCEPT
                   !.last = "open", !.path = canon,
                   !.key = IF canon = "" THEN 0 ELSE key]
    IN
    /\ me.pc = "idle"
    /\ me.msq_id = NoChan
    /\ IF canon = ""
       THEN /\ proc' = [proc EXCEPT ![p] = [done EXCEPT !.ret = Err1,
                            !.diag = Diag("Failed to canonicalize", <<>>)]]
            /\ UNCHANGED <<msq, nextId>>
       ELSE /\ msq' = MsggetQueues(key, room)
            /\ nextId' = MsggetNext(key, room)
            /\ proc' = [proc EXCEPT ![p] =
                 IF id = NoChan
                 THEN [done EXCEPT !.ret = Err1,
                         !.diag = Diag("Failed to open message channel", <<id>>)]
                 ELSE [done EXCEPT !.msq_id = id, !.ret = OkChan(id)]]
    /\ UNCHANGED <<daemon, nsends, plen, script, closed, os>>

\* fn create_receive_channel: the queue whose key is the process id.
CreateReceiveChannelId(p, room) == MsggetId(p, room)

\* A send_message that returns its own MessageChannel's id as the reply
\* channel.
SendReturnedDestination(me) ==
    IF me.exp_resp
    THEN [me EXCEPT !.pc = "idle", !.ret = OkChan(me.msq_id),
            !.handles = Append(@, [response_chan |-> me.msq_id,
                                   xid |-> me.sxid])]
    ELSE [me EXCEPT !.pc = "idle", !.ret = OkUnit]

\* send_message, lines 157-163: the value a send that pushed every chunk
\* returns, and the handle the caller then holds.
SendReturned(me) ==
    IF me.exp_resp
    THEN [me EXCEPT !.pc = "idle", !.ret = OkChan(me.receive_chan),
            !.handles = Append(@, [response_chan |-> me.receive_chan,
                                   xid |-> me.sxid])]
    ELSE [me EXCEPT !.pc = "idle", !.ret = OkUnit]

\* while data.len() > 0
MoreData(data) == Len(data) > 0

\* A send_message that goes on when create_receive_channel returned Err.
CreateFailedIgnored(exp_resp, receive_chan) == FALSE

\* create_receive_channel()?: the Err of create_receive_channel is the Err
\* of send_message.
CreateFailed(exp_resp, receive_chan) == exp_resp /\ receive_chan = NoChan

\* send_message up to its loop: the reply queue, the serialization (ser is
\* whether serde_json::to_string succeeds), and the return when there is
\* nothing to push.
SendStart(p, T, ser, room) ==
    LET me == proc[p]
        exp_resp == T.expect_response
        receive_chan == IF exp_resp THEN CreateReceiveChannelId(p, room) ELSE NoChan
        msg == PayloadBytes(plen, nsends + 1)
        begun == [IdleProc(me.msq_id, me.handles) EXCEPT
                    !.last = "send", !.exp_resp = exp_resp,
                    !.type_id = T.type_id, !.receive_chan = receive_chan,
                    !.sxid = nsends + 1]
    IN
    /\ me.pc = "idle"
    /\ me.msq_id # NoChan
    /\ nsends < MaxSends
    /\ nsends' = nsends + 1
    /\ msq' = IF exp_resp THEN MsggetQueues(p, room) ELSE msq
    /\ nextId' = IF exp_resp THEN MsggetNext(p, room) ELSE nextId
    /\ proc' = [proc EXCEPT ![p] =
         IF CreateFailed(exp_resp, receive_chan)
         THEN [begun EXCEPT !.ret = Err1,
                 !.diag = Diag("Failed to open message channel", <<receive_chan>>)]
         ELSE IF ~ser
         THEN [begun EXCEPT !.ret = Err1,
                 !.diag = Diag("Failed to serialize JSON", <<>>)]
         ELSE IF MoreData(msg)
         THEN [begun EXCEPT !.pc = "send", !.data = msg, !.orig = msg]
         ELSE SendReturned([begun EXCEPT !.data = msg, !.orig = msg])]
    /\ UNCHANGED <<daemon, plen, script, closed, os>>

\* A send_message that goes round its loop again when a push has failed.
SendFailedRetries(me) == me

\* send_message, lines 145-151: if ret == -1 { eprintln!(..); return Err(1) }
SendFailed(me) ==
    [me EXCEPT !.pc = "idle", !.ret = Err1,
               !.diag = Diag("Failed to send message to channel", <<me.msq_id>>)]

\* One turn of send_message's loop, send_paged_message with it, and the
\* return that follows the last turn.  msgsnds counts the msgsnd calls of
\* the send_message call.
SendPage(p, mem) ==
    LET me == proc[p]
        size == Min(Len(me.data), MESSAGE_LENGTH)
        m == PagedMessage(p, me.type_id, me.receive_chan,
                          SubSeq(me.data, 1, size), size = Len(me.data), me.sxid,
                          Len(me.pushed) + 1)
        rest == SubSeq(me.data, size + 1, Len(me.data))
        called == [me EXCEPT !.msgsnds = @ + 1]
        pushed == [called EXCEPT !.data = rest, !.pushed = Append(@, m)]
    IN
    /\ me.pc = "send"
    /\ msq' = MsgsndQueues(me.msq_id, m, mem)
    /\ proc' = [proc EXCEPT ![p] =
         IF ~MsgsndOk(me.msq_id, mem)
         THEN SendFailed(called)
         ELSE IF MoreData(rest) THEN pushed
         ELSE SendReturned(pushed)]
    /\ UNCHANGED <<nextId, daemon, nsends, plen, script, closed, os>>

\* ------------------------------------------------------------ receive

\* A receive_message that tries the error envelope before the expected type.
DecodeEnvelopeFirst(buffer) ==
    IF ~from_utf8(buffer)
    THEN [ret |-> Err1, tried |-> FALSE,
          diag |-> Diag("Failed to decode response from server", <<>>)]
    ELSE LET message == ParseServerErrorMessage(buffer) IN
      IF message.ok
      THEN [ret |-> Err1, tried |-> TRUE, diag |-> Diag("{}", message.s)]
      ELSE LET r == ParseExpected(buffer) IN
        IF r.ok
        THEN [ret |-> OkValue(r.b), tried |-> TRUE, diag |-> NoDiag]
        ELSE [ret |-> Err1, tried |-> TRUE,
              diag |-> DiagDetail("Failed to parse response from server", r.err)]

\* receive_message, lines 265-285: the bytes as text, the two parses and
\* what is returned and written.  tried: whether the parse as a
\* ServerErrorMessage was made.
Decode(buffer) ==
    IF ~from_utf8(buffer)
    THEN [ret |-> Err1, tried |-> FALSE,
          diag |-> Diag("Failed to decode response from server", <<>>)]
    ELSE LET r == ParseExpected(buffer) IN
      IF r.ok
      THEN [ret |-> OkValue(r.b), tried |-> FALSE, diag |-> NoDiag]
      ELSE LET message == ParseServerErrorMessage(buffer) IN
        IF message.ok
        THEN [ret |-> Err1, tried |-> TRUE, diag |-> Diag("{}", message.s)]
        ELSE [ret |-> Err1, tried |-> TRUE,
              diag |-> DiagDetail("Failed to parse response from server", r.err)]

\* A receive_message whose loop goes on after the segment flagged final.
LoopAgainAlways(is_done) == TRUE

\* while !is_done
LoopAgain(is_done) == ~is_done

\* receive_message up to its loop, on the h-th ResponseChannel the process
\* holds.
RecvStart(p, h) ==
    LET me == proc[p]
        chan == me.handles[h]
    IN
    /\ me.pc = "idle"
    /\ h \in 1..Len(me.handles)
    /\ proc' = [proc EXCEPT ![p] =
         [IdleProc(me.msq_id, me.handles) EXCEPT
            !.pc = "recv", !.last = "recv",
            !.response_chan = chan.response_chan, !.rxid = chan.xid,
            !.afterClose = chan.response_chan \in closed]]
    /\ UNCHANGED <<msq, nextId, daemon, nsends, plen, script, closed, os>>

\* A receive_message that removes its queue with the segment flagged final.
RecvQueuesCleanUp(id) ==
    IF IsFinal(MsgrcvMessage(id)) THEN MsgctlQueues(id) ELSE MsgrcvQueues(id)

\* What a turn of receive_message's loop does to the kernel's queues: its
\* one system call is msgrcv.
RecvQueues(id) == MsgrcvQueues(id)

\* A receive_message that decodes what it has when a pull fails.
RecvFailedDecodes(me) ==
    [me EXCEPT !.pc = "idle", !.ret = Decode(me.buffer).ret,
               !.diag = Decode(me.buffer).diag, !.tried = Decode(me.buffer).tried]

\* receive_message, lines 246-253: if res == -1 { eprintln!(..); return Err(1) }
RecvFailed(me) ==
    [me EXCEPT !.pc = "idle", !.ret = Err1,
               !.diag = Diag("Failed to receive message from channel",
                             <<me.response_chan>>)]

\* One turn of receive_message's loop, and what follows the loop when the
\* turn was the last.  The turn waits while the queue is there and empty.
\* msgrcvs counts the msgrcv calls of the receive_message call.
RecvPull(p) ==
    LET me == proc[p]
        id == me.response_chan
        m == MsgrcvMessage(id)
        called == [me EXCEPT !.msgrcvs = @ + 1]
        read == [called EXCEPT !.reads = @ + 1, !.got = @ \cup {m.xid},
                               !.is_done = IsFinal(m)]
        taken == [read EXCEPT !.buffer = Extend(@, m)]
        out == Decode(taken.buffer)
    IN
    /\ me.pc = "recv"
    /\ IF MsgrcvFails(id)
       THEN /\ proc' = [proc EXCEPT ![p] = RecvFailed(called)]
            /\ UNCHANGED msq
       ELSE /\ MsgrcvReady(id)
            /\ msq' = RecvQueues(id)
            /\ proc' = [proc EXCEPT ![p] =
                 IF ~SliceOk(m) THEN [read EXCEPT !.pc = "panicked"]
                 ELSE IF LoopAgain(taken.is_done) THEN taken
                 ELSE [taken EXCEPT !.pc = "idle", !.ret = out.ret,
                         !.diag = out.diag, !.tried = out.tried]]
    /\ UNCHANGED <<nextId, daemon, nsends, plen, script, closed, os>>

\* ResponseChannel::close, on the h-th ResponseChannel the process holds.
Close(p, h) ==
    LET me == proc[p]
        id == me.handles[h].response_chan
        done == [IdleProc(me.msq_id, me.handles) EXCEPT
                   !.last = "close", !.response_chan = id]
    IN
    /\ me.pc = "idle"
    /\ h \in 1..Len(me.handles)
    /\ msq' = IF MsgctlOk(id) THEN MsgctlQueues(id) ELSE msq
    /\ closed' = IF MsgctlOk(id) THEN closed \cup {id} ELSE closed
    /\ proc' = [proc EXCEPT ![p] =
         IF MsgctlOk(id) THEN [done EXCEPT !.ret = OkUnit]
         ELSE [done EXCEPT !.ret = Err1,
                 !.diag = Diag("Failed to cleanup message channel", <<id>>)]]
    /\ UNCHANGED <<nextId, daemon, nsends, plen, script, os>>

\* ------------------------------------------------------------ the daemon
\* The other end of the queues is not this program: it reads the requests
\* of its queue one segment at a time and writes its reply to the queue the
\* request names.  What it writes is a length byte and 100 bytes a segment.

\* The daemon reads the next segment of its queue; with the final segment
\* of a request that names a reply queue it decides on its reply.
DaemonPull ==
    LET m == MsgrcvMessage(daemon.msq_id)
        whole == Extend(daemon.buffer, m)
        answers == IsFinal(m) /\ m.response_chan # NoChan
    IN
    /\ daemon.reply = <<>>
    /\ MsgrcvReady(daemon.msq_id)
    /\ msq' = MsgrcvQueues(daemon.msq_id)
    /\ daemon' = [daemon EXCEPT
         !.buffer = IF IsFinal(m) THEN <<>> ELSE whole,
         !.request = IF IsFinal(m) THEN whole ELSE @,
         !.reply = IF answers THEN script ELSE <<>>,
         !.to = IF answers THEN m.response_chan ELSE NoChan,
         !.xid = IF answers THEN m.xid ELSE 0]
    /\ UNCHANGED <<nextId, proc, nsends, plen, script, closed, os>>

\* The daemon writes the next segment of its reply, and gives the reply up
\* when the queue is gone.
DaemonPush ==
    LET raw == Head(daemon.reply)
        m == [m_type |-> MESSAGE_TYPE, response_chan |-> NoChan,
              response_pid |-> 0, message_type |-> 0,
              message_length |-> raw.message_length, message |-> raw.message,
              xid |-> daemon.xid, seq |-> 0]
    IN
    /\ daemon.reply # <<>>
    /\ msq' = MsgsndQueues(daemon.to, m, TRUE)
    /\ daemon' = IF MsgsndOk(daemon.to, TRUE)
                 THEN [daemon EXCEPT !.reply = Tail(@)]
                 ELSE [daemon EXCEPT !.reply = <<>>]
    /\ UNCHANGED <<nextId, proc, nsends, plen, script, closed, os>>

\* ------------------------------------------------------------ specification

Next ==
    \/ \E p \in Procs, T \in MessageHandlers, ser \in BOOLEAN, room \in BOOLEAN :
           SendStart(p, T, ser, room)
    \/ \E p \in Procs, mem \in BOOLEAN : SendPage(p, mem)
    \/ \E p \in Procs, h \in 1..MaxSends : RecvStart(p, h)
    \/ \E p \in Procs : RecvPull(p)
    \/ \E p \in Procs, h \in 1..MaxSends : Close(p, h)
    \/ DaemonPull
    \/ DaemonPush

Spec == Init /\ [][Next]_vars

\* The same clients from before their open_message_channel: none has a
\* MessageChannel yet, and each opens one of the paths first.
InitOpen ==
    /\ msq = [id \in {1} |-> [key |-> DaemonKey, msgs |-> <<>>]]
    /\ nextId = 2
    /\ plen = 1
    /\ script = <<RawSegment(TextRunning, TRUE)>>
    /\ proc = [p \in Procs |-> IdleProc(NoChan, <<>>)]
    /\ daemon = [msq_id |-> 1, buffer |-> <<>>, request |-> <<>>,
                 reply |-> <<>>, to |-> NoChan, xid |-> 0]
    /\ nsends = 0
    /\ closed = {}
    /\ os = OsStart(StdFds, FirstPid)

NextOpen ==
    \/ \E p \in Procs, path \in Paths, room \in BOOLEAN : Open(p, path, room)
    \/ Next

SpecOpen == InitOpen /\ [][NextOpen]_vars

\* The processes that call run_daemon: the first is started by the shell,
\* in a process group of its own or in the shell's, with any of its
\* standard streams open.
InitDaemon ==
    /\ msq = [id \in {1} |-> [key |-> DaemonKey, msgs |-> <<>>]]
    /\ nextId = 2
    /\ plen = 1
    /\ script = <<RawSegment(TextRunning, TRUE)>>
    /\ proc = [p \in Procs |-> IdleProc(NoChan, <<>>)]
    /\ daemon = [msq_id |-> 1, buffer |-> <<>>, request |-> <<>>,
                 reply |-> <<>>, to |-> NoChan, xid |-> 0]
    /\ nsends = 0
    /\ closed = {}
    /\ \E fds \in SUBSET StdFds, pgid \in {ShellPid, FirstPid} :
         os = OsStart(fds, pgid)

NextDaemon ==
    \/ \E p \in DOMAIN os.tasks, ok \in BOOLEAN : Fork(p, ok)
    \/ \E p \in DOMAIN os.tasks, ok \in BOOLEAN : Setsid(p, ok)
    \/ \E p \in DOMAIN os.tasks, eio \in BOOLEAN : CloseFd(p, eio)

SpecDaemon == InitDaemon /\ [][NextDaemon]_vars

\* A reply queue is removed from outside the clients: by the daemon, or by
\* ipcrm.
Ipcrm(id) ==
    /\ Exists(id)
    /\ id # daemon.msq_id
    /\ msq' = MsgctlQueues(id)
    /\ UNCHANGED <<nextId, proc, daemon, nsends, plen, script, closed, os>>

\* The two clients with a one-segment request, answered in one segment or
\* in two.
InitRemoved ==
    /\ msq = [id \in {1} |-> [key |-> DaemonKey, msgs |-> <<>>]]
    /\ nextId = 2
    /\ plen = 1
    /\ script \in { <<RawSegment(TextRunning, TRUE)>>,
                    <<RawSegment(SubSeq(TextRunning, 1, 11), FALSE),
                      RawSegment(SubSeq(TextRunning, 12, 16), TRUE)>> }
    /\ proc = [p \in Procs |-> IdleProc(1, <<>>)]
    /\ daemon = [msq_id |-> 1, buffer |-> <<>>, request |-> <<>>,
                 reply |-> <<>>, to |-> NoChan, xid |-> 0]
    /\ nsends = 0
    /\ closed = {}
    /\ os = OsStart(StdFds, FirstPid)

NextRemoved ==
    \/ \E id \in DOMAIN msq : Ipcrm(id)
    \/ Next

SpecRemoved == InitRemoved /\ [][NextRemoved]_vars

\* ------------------------------------------------------------ properties

\* The process's latest call was a send_message that returned Ok.
SendReturnedOk(p) ==
    proc[p].last = "send" /\ proc[p].pc = "idle" /\ proc[p].ret.kind = "Ok"

\* The process's latest call was a receive_message, and it returned.
RecvReturned(p) == proc[p].last = "recv" /\ proc[p].pc = "idle"

CeilDiv(n, d) == (n + d - 1) \div d

Max(a, b) == IF a > b THEN a ELSE b

\* The first segment_length bytes of the segments, in order.
RECURSIVE Concat(_)
Concat(segs) ==
    IF segs = <<>> THEN <<>>
    ELSE SubSeq(Head(segs).message, 1, SegLen(Head(segs))) \o Concat(Tail(segs))

RoundTripNonEmpty ==
    \A p \in Procs : SendReturnedOk(p) /\ Len(proc[p].orig) > 0 =>
        /\ Len(proc[p].pushed) = CeilDiv(Len(proc[p].orig), MESSAGE_LENGTH)
        /\ Concat(proc[p].pushed) = proc[p].orig

\* C2: among the segments a send that returned Ok pushed, the last has the
\* final-segment flag (bit 7 of the length byte) and no earlier one has it.
C2_FinalFlagOnLast ==
    \A p \in Procs : SendReturnedOk(p) =>
        \A i \in 1..Len(proc[p].pushed) :
            IsFinal(proc[p].pushed[i]) <=> (i = Len(proc[p].pushed))

\* A send of three segments has returned Ok.
C2_Witness ==
    \E p \in Procs : SendReturnedOk(p) /\ Len(proc[p].pushed) = 3

PullFailed(p) == RecvReturned(p) /\ ~proc[p].is_done

NotUtf8(p) == RecvReturned(p) /\ proc[p].is_done /\ ~from_utf8(proc[p].buffer)

Decoded(p) == RecvReturned(p) /\ proc[p].is_done /\ from_utf8(proc[p].buffer)

OnlyEnvelope(p) ==
    /\ Decoded(p)
    /\ ~ParseExpected(proc[p].buffer).ok
    /\ ParseServerErrorMessage(proc[p].buffer).ok

NeitherForm(p) ==
    /\ Decoded(p)
    /\ ~ParseExpected(proc[p].buffer).ok
    /\ ~ParseServerErrorMessage(proc[p].buffer).ok

\* C4: what receive_message returns for a reply that parses only as
\* {"error": msg} differs from what it returns for a failed pull, for bytes
\* that are not UTF-8 and for a reply that parses as neither form.
C4_ServerErrorDistinct ==
    \A p, q \in Procs :
        OnlyEnvelope(p) /\ (PullFailed(q) \/ NotUtf8(q) \/ NeitherForm(q))
            => proc[p].ret # proc[q].ret

\* C5: a decoded reply that parses as the expected type is returned as the
\* value, with no parse as an error envelope made; one that does not, and
\* parses as an envelope, ends as the server's error with its message; one
\* that parses as neither ends as the error of the first parse.
C5_DecodePrecedence ==
    \A p \in Procs : Decoded(p) =>
        LET r == ParseExpected(proc[p].buffer)
            e == ParseServerErrorMessage(proc[p].buffer)
        IN
        /\ r.ok => /\ proc[p].ret = OkValue(r.b)
                   /\ ~proc[p].tried
                   /\ proc[p].diag = NoDiag
        /\ ~r.ok /\ e.ok => /\ proc[p].ret = Err1
                            /\ proc[p].diag = Diag("{}", e.s)
        /\ ~r.ok /\ ~e.ok =>
               /\ proc[p].ret = Err1
               /\ proc[p].diag =
                    DiagDetail("Failed to parse response from server", r.err)

\* A receive has returned the value of a reply that parses both ways.
C5_Witness ==
    \E p \in Procs :
        /\ Decoded(p)
        /\ ParseExpected(proc[p].buffer).ok
        /\ ParseServerErrorMessage(proc[p].buffer).ok
        /\ proc[p].ret.kind = "Ok"

\* The other two cases of C5 happen as well.
C5_WitnessEnvelope == \E p \in Procs : OnlyEnvelope(p)

C5_WitnessNeither == \E p \in Procs : NeitherForm(p)

\* C6: when a send that asked for a reply has returned, the caller holds the
\* channel of its reply queue, or the queue is gone from the kernel.
C6_ReplyQueueReleased ==
    \A p \in Procs :
        proc[p].last = "send" /\ proc[p].pc = "idle" /\ proc[p].receive_chan # NoChan
            => \/ proc[p].ret = OkChan(proc[p].receive_chan)
               \/ ~Exists(proc[p].receive_chan)

\* C7: every segment a receive_message pulls answers the send that returned
\* its channel, and no two channels of a process are the same queue.
C7_PrivateQueue ==
    \A p \in Procs :
        /\ proc[p].last = "recv" => proc[p].got \subseteq {proc[p].rxid}
        /\ \A i, j \in 1..Len(proc[p].handles) :
               i # j => proc[p].handles[i].response_chan
                            # proc[p].handles[j].response_chan

\* The two parts of C7, apart.
C7_OwnReplyOnly ==
    \A p \in Procs : proc[p].last = "recv" => proc[p].got \subseteq {proc[p].rxid}

C7_NoSharedQueue ==
    \A p \in Procs : \A i, j \in 1..Len(proc[p].handles) :
        i # j => proc[p].handles[i].response_chan # proc[p].handles[j].response_chan

\* C8: no call ends the process: every call returns a value or an error.
C8_NoAbort == \A p \in Procs : proc[p].pc # "panicked"

\* C9: a queue that a close removed is not in the kernel, and a
\* receive_message begun on its channel after the close returns an error,
\* having read nothing.
C9_ClosedStaysClosed ==
    /\ \A id \in closed : ~Exists(id)
    /\ \A p \in Procs :
          /\ (proc[p].last = "close" /\ proc[p].ret.kind = "Ok")
                => ~Exists(proc[p].response_chan)
          /\ (proc[p].last = "recv" /\ proc[p].afterClose)
                => /\ proc[p].reads = 0
                   /\ proc[p].pc = "idle" => proc[p].ret = Err1

\* A receive_message begun after its channel's close has returned.
C9_Witness ==
    \E p \in Procs : RecvReturned(p) /\ proc[p].afterClose

\* C10, first half: a receive_message that returned had pulled a segment
\* flagged final, or its queue was not there.
NoTimeout ==
    \A p \in Procs :
        RecvReturned(p) => proc[p].is_done \/ ~Exists(proc[p].response_chan)

\* C10: a receive_message returns only after a segment flagged final or
\* without its queue, and once it has pulled a segment flagged final it has
\* returned, with no further read.
C10_NoTimeout ==
    /\ NoTimeout
    /\ \A p \in Procs :
          proc[p].last = "recv" /\ proc[p].is_done => proc[p].pc = "idle"

\* The segments of the queue id that the send_message call xid pushed.
QueuedOf(id, xid) ==
    IF Exists(id) THEN SelectSeq(msq[id].msgs, LAMBDA m : m.xid = xid) ELSE <<>>

\* The process's latest call was a send_message, and it returned.
SendEnded(p) == proc[p].last = "send" /\ proc[p].pc = "idle"

\* C11: a send_message that returned gave a ResponseChannel exactly when it
\* returned Ok for a message that expects a response, and Ok(None) when it
\* returned Ok for one that does not; the channel's id is the response_chan
\* of every segment the call pushed, those still queued included, and the
\* caller holds that channel.
C11_ReturnsChannel ==
    \A p \in Procs : SendEnded(p) =>
        LET me == proc[p] IN
        /\ (me.ret.val # <<>>) <=> (me.exp_resp /\ me.ret.kind = "Ok")
        /\ me.ret.kind = "Ok" /\ ~me.exp_resp => me.ret = OkUnit
        /\ me.ret.kind = "Ok" <=> (me.data = <<>> /\ me.diag = NoDiag)
        /\ me.ret.val # <<>> =>
              /\ \A i \in 1..Len(me.pushed) :
                     me.pushed[i].response_chan = me.ret.val[1]
              /\ \A i \in 1..Len(QueuedOf(me.msq_id, me.sxid)) :
                     QueuedOf(me.msq_id, me.sxid)[i].response_chan = me.ret.val[1]
              /\ me.handles # <<>>
              /\ me.handles[Len(me.handles)].response_chan = me.ret.val[1]
        /\ me.ret.val = <<>> =>
              \A i \in 1..Len(me.pushed) :
                  me.exp_resp \/ me.pushed[i].response_chan = NoChan

\* A send of two segments that expects a response has returned its channel,
\* with both segments still in the daemon's queue.
C11_Witness ==
    \E p \in Procs :
        /\ SendEnded(p) /\ proc[p].exp_resp /\ proc[p].ret.val # <<>>
        /\ Len(proc[p].pushed) = 2
        /\ Len(QueuedOf(proc[p].msq_id, proc[p].sxid)) = 2

\* A send that expects no response has returned Ok(None).
C11_WitnessNone ==
    \E p \in Procs :
        SendEnded(p) /\ ~proc[p].exp_resp /\ proc[p].ret = OkUnit
            /\ Len(proc[p].pushed) = 2

\* ------------------------------------------------------------ daemonize

\* The process the run_daemon call cid made, if it made one.
ChildrenOf(cid) == {q \in DOMAIN os.tasks : os.tasks[q].born = cid}

\* The system calls of the sequence did, by name.
Calls(did) == {did[i].call : i \in 1..Len(did)}

\* C12: run_daemon returns QUIT to the process that called fork, once fork
\* has made the child, and that process has called neither setsid nor
\* close: its session, group and descriptors are as they were; CONTINUE is
\* returned only to a process that a fork of run_daemon made; and when fork
\* fails run_daemon returns Err(1) and the call has made no process.
C12_ForkBranches ==
    \A p \in DOMAIN os.tasks :
        LET me == os.tasks[p] IN
        /\ me.ret = OkQuit =>
              /\ me.role = "parent"
              /\ Calls(me.did) = {"fork"}
              /\ me.sid = me.sid0 /\ me.fds = me.fds0
              /\ \E c \in ChildrenOf(me.cid) :
                    os.tasks[c].ppid = p /\ me.did = <<Sys("fork", NoChan, c)>>
        /\ me.ret = OkContinue =>
              /\ me.role = "child"
              /\ me.born = me.cid
              /\ me.did[1] = Sys("fork", NoChan, 0)
              /\ p # FirstPid
        /\ (me.role = "parent" /\ me.pc = "idle") => me.ret = OkQuit
        /\ me.role = "parent" => me.pc = "idle"
        /\ (me.did # <<>> /\ me.did[1].res = NoChan) =>
              /\ me.ret = ErrExit
              /\ me.line = "Fork failed"
              /\ me.did = <<Sys("fork", NoChan, NoChan)>>
              /\ ChildrenOf(me.cid) = {}
              /\ me.sid = me.sid0 /\ me.fds = me.fds0

\* A fork has returned QUIT to the parent, and a later fork, called by its
\* child, has failed.
C12_Witness ==
    \E p, c \in DOMAIN os.tasks :
        /\ os.tasks[p].ret = OkQuit
        /\ c \in ChildrenOf(os.tasks[p].cid)
        /\ os.tasks[c].ret = ErrExit
        /\ os.tasks[c].line = "Fork failed"

\* The child of a fork has returned CONTINUE beside its parent's QUIT.
C12_WitnessContinue ==
    \E p, c \in DOMAIN os.tasks :
        /\ os.tasks[p].ret = OkQuit
        /\ c \in ChildrenOf(os.tasks[p].cid)
        /\ os.tasks[c].ret = OkContinue

\* C13: a process to which run_daemon has returned CONTINUE leads a session
\* that is not the one it was made in, and its standard input, output and
\* error are closed.
C13_Backgrounded ==
    \A p \in DOMAIN os.tasks :
        os.tasks[p].ret = OkContinue =>
            /\ os.tasks[p].sid = p
            /\ os.tasks[p].pgid = p
            /\ os.tasks[p].sid # os.tasks[p].sid0
            /\ os.tasks[p].fds \cap StdFds = {}

\* run_daemon has returned CONTINUE in a process that had its three streams
\* open, and one of the three closes returned an error.
C13_Witness ==
    \E p \in DOMAIN os.tasks :
        /\ os.tasks[p].ret = OkContinue
        /\ os.tasks[p].fds0 = StdFds
        /\ \E i \in 1..Len(os.tasks[p].did) :
              os.tasks[p].did[i].call = "close" /\ os.tasks[p].did[i].res = NoChan

\* ------------------------------------------------------------ segments

\* How many bytes of a payload of n bytes its i-th chunk holds.
ChunkLen(n, i) ==
    IF n - MESSAGE_LENGTH * (i - 1) > MESSAGE_LENGTH
    THEN MESSAGE_LENGTH
    ELSE n - MESSAGE_LENGTH * (i - 1)

\* The i-th chunk of the payload.
Chunk(orig, i) ==
    SubSeq(orig, MESSAGE_LENGTH * (i - 1) + 1,
           MESSAGE_LENGTH * (i - 1) + ChunkLen(Len(orig), i))

\* C14: in every segment a send_message has pushed, the low 7 bits of
\* message_length are at most 100 and are the number of payload bytes the
\* segment holds (its chunk, then zeros); the length byte is that number or
\* that number with bit 7 set, so setting the flag leaves the length as it
\* was.  The same bound holds of every segment in the daemon's queue.
C14_LengthField ==
    /\ \A p \in Procs : \A i \in 1..Len(proc[p].pushed) :
          LET m == proc[p].pushed[i]
              n == ChunkLen(Len(proc[p].orig), i)
          IN
          /\ SegLen(m) <= MESSAGE_LENGTH
          /\ SegLen(m) = n
          /\ n >= 1
          /\ SubSeq(m.message, 1, n) = Chunk(proc[p].orig, i)
          /\ \A k \in (n + 1)..MESSAGE_LENGTH : m.message[k] = 0
          /\ m.message_length \in {n, n + 128}
          /\ SetFin(n) % 128 = n
    /\ \A i \in 1..Len(msq[daemon.msq_id].msgs) :
          SegLen(msq[daemon.msq_id].msgs[i]) <= MESSAGE_LENGTH

\* A send has pushed a full segment without the flag and then a segment of
\* one byte with it.
C14_Witness ==
    \E p \in Procs :
        /\ Len(proc[p].pushed) = 2
        /\ proc[p].pushed[1].message_length = MESSAGE_LENGTH
        /\ proc[p].pushed[2].message_length = 129

\* A send has pushed a full segment with the flag: the length byte is 228.
C14_WitnessFull ==
    \E p \in Procs :
        /\ Len(proc[p].pushed) = 1
        /\ proc[p].pushed[1].message_length = MESSAGE_LENGTH + 128

\* ------------------------------------------------------------ queue identity

\* The process's latest call was an open_message_channel that returned Ok.
Opened(p) == proc[p].last = "open" /\ proc[p].ret.kind = "Ok"

\* C15, first half: two opens of the same canonical path got the same key
\* and the same queue.
SamePathSameQueue ==
    \A p, q \in Procs :
        Opened(p) /\ Opened(q) /\ proc[p].path = proc[q].path =>
            /\ proc[p].key = proc[q].key
            /\ proc[p].msq_id = proc[q].msq_id

\* C15: two opens of the same canonical path got the same key and the same
\* queue, and two opens of different canonical paths got different keys.
C15_QueueIdentity ==
    /\ SamePathSameQueue
    /\ \A p, q \in Procs :
          Opened(p) /\ Opened(q) /\ proc[p].path # proc[q].path =>
              proc[p].key # proc[q].key

\* Two opens of different canonical paths hold the same queue.
C15_SharedQueue ==
    \E p, q \in Procs :
        /\ Opened(p) /\ Opened(q)
        /\ proc[p].path # proc[q].path
        /\ proc[p].msq_id = proc[q].msq_id

\* One process opened the path and another a symbolic link to it, and they
\* hold the same queue.
C15_WitnessLink ==
    \E p, q \in Procs :
        /\ p # q /\ Opened(p) /\ Opened(q)
        /\ proc[p].path = proc[q].path
        /\ proc[p].msq_id = proc[q].msq_id

\* ------------------------------------------------------------ concurrent senders

\* C16: when every client's send_message has pushed all its segments and
\* returned Ok, a request the daemon has put together by reading its queue in
\* order up to a segment flagged final is the payload of one of the clients.
C16_Reassembly ==
    ((\A p \in Procs : SendReturnedOk(p)) /\ daemon.request # <<>>)
        => \E p \in Procs : daemon.request = proc[p].orig

\* The same when the daemon's queue has one sender (what holds of C16).
ReassemblyOneSender ==
    ((\E p \in Procs : proc[p].msq_id = NoChan)
        /\ (\A p \in Procs : proc[p].msq_id # NoChan => SendReturnedOk(p))
        /\ nsends = 1
        /\ daemon.request # <<>>)
        => \E p \in Procs : daemon.request = proc[p].orig

\* The one sender's request of three segments has been put together.
C16_WitnessOneSender ==
    /\ \E p \in Procs : proc[p].msq_id = NoChan
    /\ nsends = 1
    /\ Len(daemon.request) > 2 * MESSAGE_LENGTH

\* The segments of the queue id that say process p sent them, in queue
\* order.
QueuedFrom(id, p) ==
    IF Exists(id)
    THEN SelectSeq(msq[id].msgs, LAMBDA m : m.response_pid = p)
    ELSE <<>>

\* Whether the sequence q is the end of the sequence s.
IsSuffix(q, s) ==
    /\ Len(q) <= Len(s)
    /\ q = SubSeq(s, Len(s) - Len(q) + 1, Len(s))

\* C17, the header: every segment of one send_message call has the caller's
\* process id, the caller's message type, the one message-queue type, and as
\* response_chan the id of the call's reply queue, or -1 when the message
\* expects no response.
SameHeader ==
    \A p \in Procs : \A i \in 1..Len(proc[p].pushed) :
        LET m == proc[p].pushed[i] IN
        /\ m.m_type = MESSAGE_TYPE
        /\ m.response_pid = p
        /\ m.message_type = proc[p].type_id
        /\ m.response_chan = proc[p].receive_chan
        /\ proc[p].exp_resp => m.response_chan # NoChan /\ Exists(m.response_chan)
        /\ ~proc[p].exp_resp => m.response_chan = NoChan

\* C17, the order: the segments of the daemon's queue that carry the process
\* id p are, in queue order, segments that p pushed, in the order of its
\* calls and of the turns of each call's loop with none missing in between,
\* and those of p's latest call are the end of what that call has pushed.
SenderOrder ==
    /\ \A i \in 1..Len(msq[daemon.msq_id].msgs) :
          msq[daemon.msq_id].msgs[i].response_pid \in Procs
    /\ \A p \in Procs :
          LET q == QueuedFrom(daemon.msq_id, p) IN
          /\ \A i \in 1..(Len(q) - 1) :
                \/ q[i].xid = q[i + 1].xid /\ q[i + 1].seq = q[i].seq + 1
                \/ q[i].xid < q[i + 1].xid /\ q[i + 1].seq = 1
          /\ proc[p].last = "send" =>
                IsSuffix(QueuedOf(daemon.msq_id, proc[p].sxid), proc[p].pushed)

\* C17: the header and the order together.
C17_HeaderAndOrder == SameHeader /\ SenderOrder

\* Two senders have pushed two segments each, and the four are in the
\* daemon's queue in the order 1, 2, 1, 2 of their senders.
C17_Witness ==
    LET q == msq[daemon.msq_id].msgs IN
    /\ Len(q) = 4
    /\ q[1].response_pid = 1 /\ q[2].response_pid = 2
    /\ q[3].response_pid = 1 /\ q[4].response_pid = 2
    /\ \A p \in Procs : Len(proc[p].pushed) = 2

\* ------------------------------------------------------------ failed pushes

\* The process's latest call was a send_message that ended on a failed
\* msgsnd.
PushFailed(p) ==
    /\ SendEnded(p)
    /\ proc[p].ret = Err1
    /\ proc[p].diag.line = "Failed to send message to channel"

\* The daemon has read nothing from its queue yet.
NothingPulled == daemon.buffer = <<>> /\ daemon.request = <<>>

\* C18: a send_message makes one msgsnd call for each segment it has pushed
\* and one more only when that one failed, and then it has returned Err(1):
\* the failed chunk and the chunks after it are not pushed, the segments
\* pushed before it are those of the chunks before it, none flagged final,
\* and they are in the destination queue until the daemon reads them.
C18_FirstFailureEnds ==
    \A p \in Procs : proc[p].last = "send" =>
        LET me == proc[p] IN
        /\ me.msgsnds \in {Len(me.pushed), Len(me.pushed) + 1}
        /\ me.msgsnds = Len(me.pushed) + 1 => PushFailed(p)
        /\ PushFailed(p) =>
              /\ me.msgsnds = Len(me.pushed) + 1
              /\ Len(me.pushed) < CeilDiv(Len(me.orig), MESSAGE_LENGTH)
              /\ me.data = SubSeq(me.orig, MESSAGE_LENGTH * Len(me.pushed) + 1,
                                  Len(me.orig))
              /\ \A i \in 1..Len(me.pushed) :
                    /\ ~IsFinal(me.pushed[i])
                    /\ SubSeq(me.pushed[i].message, 1, SegLen(me.pushed[i]))
                          = Chunk(me.orig, i)
              /\ IsSuffix(QueuedOf(me.msq_id, me.sxid), me.pushed)
              /\ NothingPulled => QueuedOf(me.msq_id, me.sxid) = me.pushed
              /\ me.handles = <<>> \/ me.handles[Len(me.handles)].xid # me.sxid

\* The third push of a send has failed: the send has returned Err(1) and its
\* first two segments are in the daemon's queue.
C18_Witness ==
    \E p \in Procs :
        /\ PushFailed(p)
        /\ Len(proc[p].pushed) = 2
        /\ Len(QueuedOf(proc[p].msq_id, proc[p].sxid)) = 2

\* ------------------------------------------------------------ reply queue first

\* C19: a send_message of a message that expects a response is in its loop,
\* or has pushed a segment, only with its reply queue in the kernel, the
\* queue whose key is the process id; and when create_receive_channel failed
\* the send_message has returned Err(1) having made no msgsnd call, with no
\* segment of the call in the destination queue and no reply queue made.
C19_ReplyQueueFirst ==
    \A p \in Procs : proc[p].last = "send" /\ proc[p].exp_resp =>
        LET me == proc[p] IN
        /\ (me.pc = "send" \/ me.pushed # <<>>) =>
              /\ me.receive_chan # NoChan
              /\ Exists(me.receive_chan)
              /\ msq[me.receive_chan].key = p
        /\ me.receive_chan = NoChan =>
              /\ me.pc = "idle"
              /\ me.ret = Err1
              /\ me.diag = Diag("Failed to open message channel", <<NoChan>>)
              /\ me.pushed = <<>>
              /\ me.msgsnds = 0
              /\ QueuedOf(me.msq_id, me.sxid) = <<>>
              /\ WithKey(p) = {}

\* One send_message is about to push its first segment, its reply queue in
\* the kernel, and another has returned because its reply queue could not
\* be made.
C19_Witness ==
    \E p, q \in Procs :
        /\ proc[p].last = "send" /\ proc[p].exp_resp /\ proc[p].pc = "send"
        /\ proc[p].pushed = <<>> /\ Exists(proc[p].receive_chan)
        /\ proc[q].last = "send" /\ proc[q].exp_resp
        /\ proc[q].receive_chan = NoChan /\ proc[q].pc = "idle"

\* ------------------------------------------------------------ what receive consumes

\* What one step does to the queue of process p's receive_message: a turn of
\* the loop takes the first segment of the queue and nothing else, from no
\* other queue either; the turn that takes a segment with bit 7 of its length
\* byte set is the last, and a turn that takes one without it is not; and
\* from the return to the process's next call no segment leaves the queue.
ConsumesToFinal(p) ==
    LET id == proc[p].response_chan IN
    /\ (proc[p].pc = "recv" /\ proc'[p] # proc[p]) =>
          IF ~Exists(id) THEN msq' = msq
          ELSE /\ msq[id].msgs # <<>>
               /\ msq' = [msq EXCEPT ![id].msgs = Tail(@)]
               /\ proc'[p].reads = proc[p].reads + 1
               /\ Head(msq[id].msgs).message_length >= 128
                     => proc'[p].pc # "recv"
               /\ Head(msq[id].msgs).message_length < 128
                     => proc'[p].pc \in {"recv", "panicked"}
    /\ (proc[p].last = "recv" /\ proc[p].pc # "recv" /\ proc'[p].pc # "recv"
            /\ proc'[p].last = "recv" /\ Exists(id)) =>
          /\ id \in DOMAIN msq'
          /\ Len(msq'[id].msgs) >= Len(msq[id].msgs)
          /\ SubSeq(msq'[id].msgs, 1, Len(msq[id].msgs)) = msq[id].msgs
          /\ proc'[p].reads = proc[p].reads

\* C20: receive_message takes the segments of its queue up to and with the
\* first one flagged final, one at a time from the front, and no more: what
\* is queued behind that segment is in the queue when receive_message
\* returns and stays there.
C20_ConsumesToFinal == [][\A p \in Procs : ConsumesToFinal(p)]_vars

\* A receive_message has returned after the two segments of its reply, and
\* the reply to the process's other request is still in the queue.
C20_Witness ==
    \E p \in Procs :
        /\ RecvReturned(p) /\ proc[p].is_done /\ proc[p].reads = 2
        /\ Exists(proc[p].response_chan)
        /\ Len(msq[proc[p].response_chan].msgs) = 2

\* ------------------------------------------------------------ failed pulls

\* C21: a receive_message makes one msgrcv call for each segment it has
\* read and one more only when that one failed, and then it has returned
\* Err(1), having written that the receive failed: the bytes read so far
\* are neither returned nor decoded.
C21_PullFailureEnds ==
    \A p \in Procs : proc[p].last = "recv" =>
        LET me == proc[p] IN
        /\ me.msgrcvs \in {me.reads, me.reads + 1}
        /\ me.msgrcvs = me.reads + 1 =>
              /\ me.pc = "idle"
              /\ ~me.is_done
              /\ me.ret = Err1
              /\ me.diag = Diag("Failed to receive message from channel",
                                <<me.response_chan>>)
              /\ ~me.tried
              /\ ~Exists(me.response_chan)
        /\ PullFailed(p) => me.msgrcvs = me.reads + 1

\* A receive_message had read the first segment of its reply when its queue
\* was removed, and has returned.
C21_Witness ==
    \E p \in Procs :
        /\ PullFailed(p)
        /\ proc[p].reads = 1
        /\ proc[p].buffer = SubSeq(TextRunning, 1, 11)

\* ------------------------------------------------------------ the child branch

\* The system calls of the child branch of run_daemon, in order: the call
\* and the descriptor it is about (-1: none).
ChildOrder ==
    << <<"fork", NoChan>>, <<"setsid", NoChan>>,
       <<"close", 0>>, <<"close", 1>>, <<"close", 2>> >>

\* C22: in the child branch the system calls are fork, setsid, close(0),
\* close(1), close(2), in that order.  When setsid failed, run_daemon has
\* returned Err(1) and no close was made: the descriptors and the session
\* are as they were.  When setsid succeeded, run_daemon returns CONTINUE
\* after the third close and not before, whatever the closes returned.
C22_ChildOrder ==
    \A p \in DOMAIN os.tasks : os.tasks[p].role = "child" =>
        LET me == os.tasks[p] IN
        /\ Len(me.did) \in 1..5
        /\ \A i \in 1..Len(me.did) :
              <<me.did[i].call, me.did[i].fd>> = ChildOrder[i]
        /\ Len(me.did) = 1 => me.pc = "setsid"
        /\ (Len(me.did) >= 2 /\ me.did[2].res = NoChan) =>
              /\ Len(me.did) = 2
              /\ me.pc = "idle"
              /\ me.ret = ErrExit
              /\ me.line = "Failed to start a new session"
              /\ me.fds = me.fds0
              /\ me.sid = me.sid0
        /\ (Len(me.did) >= 2 /\ me.did[2].res # NoChan) =>
              /\ me.sid = p
              /\ me.line = ""
              /\ Len(me.did) < 5 =>
                    /\ me.ret = NoStatus
                    /\ me.pc = <<"close_stdin", "close_stdout",
                                 "close_stderr">>[Len(me.did) - 1]
              /\ Len(me.did) = 5 => me.pc = "idle" /\ me.ret = OkContinue

\* In one child setsid has failed with the three streams open, and in
\* another run_daemon has returned CONTINUE after three closes that each
\* returned an error.
C22_Witness ==
    \E p, q \in DOMAIN os.tasks :
        /\ os.tasks[p].role = "child" /\ os.tasks[p].ret = ErrExit
        /\ os.tasks[p].fds = StdFds
        /\ os.tasks[q].role = "child" /\ os.tasks[q].ret = OkContinue
        /\ \A i \in 3..5 : os.tasks[q].did[i].res = NoChan

\* ------------------------------------------------------------ who removes a queue

\* C23: every queue the kernel has made is in the kernel unless a close
\* removed it, and a close removes the queue of a ResponseChannel that a
\* process holds: the daemon's queue, the destination of every send, is
\* there after every send_message, returned Ok or Err, and the queue of a
\* receive_message that has returned, Ok or Err, is there unless it was
\* closed.
C23_OnlyCloseRemoves ==
    /\ \A id \in 1..(nextId - 1) : Exists(id) \/ id \in closed
    /\ \A id \in closed :
          /\ id # daemon.msq_id
          /\ \E p \in Procs : \E h \in 1..Len(proc[p].handles) :
                proc[p].handles[h].response_chan = id
    /\ Exists(daemon.msq_id)
    /\ \A p \in Procs :
          /\ proc[p].msq_id # NoChan => Exists(proc[p].msq_id)
          /\ SendEnded(p) =>
                /\ Exists(proc[p].msq_id)
                /\ proc[p].receive_chan # NoChan => Exists(proc[p].receive_chan)
          /\ (proc[p].last = "recv" /\ proc[p].response_chan \notin closed)
                => Exists(proc[p].response_chan)

\* A send_message has returned Err after a failed push with its destination
\* queue in the kernel, and a receive_message has returned Err after a
\* whole reply with its queue in the kernel.
C23_Witness ==
    \E p, q \in Procs :
        /\ PushFailed(q) /\ Exists(proc[q].msq_id)
        /\ RecvReturned(p) /\ proc[p].is_done /\ proc[p].ret = Err1
        /\ proc[p].response_chan \notin closed
        /\ Exists(proc[p].response_chan)

\* A close has removed one reply queue, and another process's reply queue
\* and the daemon's queue are in the kernel.
C23_WitnessClosed ==
    \E p, q \in Procs :
        /\ proc[p].last = "close" /\ proc[p].ret = OkUnit
        /\ ~Exists(proc[p].response_chan)
        /\ RecvReturned(q) /\ proc[q].ret.kind = "Ok"
        /\ Exists(proc[q].response_chan)
        /\ Exists(daemon.msq_id)

====
